---- MODULE Spec2Model ----
(***************************************************************************)
(* Validation analysis scripts of the Y-axis rotation experiment.          *)
(*                                                                         *)
(* Three scripts are modelled, each as one sequential run of its main():   *)
(*   "p0126_2"  01.26/project1/validation/plot_results_2.py                *)
(*   "p0213_2"  02.13_Noauxiliarypoints/project1/validation/               *)
(*              plot_results_2.py                                          *)
(*   "p0213"    02.13_Noauxiliarypoints/project1/validation/               *)
(*              plot_results.py                                            *)
(*                                                                         *)
(* Numbers are fixed point, in hundredths: the angle 7.5 is 750, the       *)
(* threshold 0.2 is 20, the derivative threshold 1000 is 100000.  Text     *)
(* (file contents, CSV fields) is a tuple of one-character strings, and    *)
(* float() is modelled on that text.  A Python None is the empty tuple, a  *)
(* value v is <<v>>.                                                       *)
(***************************************************************************)
EXTENDS Integers, Sequences, FiniteSets, TLC

(***************************************************************************)
(* Text and float()                                                        *)
(***************************************************************************)
Digits == {"0", "1", "2", "3", "4", "5", "6", "7", "8", "9"}

Whitespace == {" ", "\n"}

DigitVal(c) ==
    CASE c = "0" -> 0 [] c = "1" -> 1 [] c = "2" -> 2 [] c = "3" -> 3
      [] c = "4" -> 4 [] c = "5" -> 5 [] c = "6" -> 6 [] c = "7" -> 7
      [] c = "8" -> 8 [] c = "9" -> 9

\* str.strip(): drop leading and trailing whitespace
RECURSIVE LStrip(_)
LStrip(t) ==
    IF t # <<>> /\ Head(t) \in Whitespace THEN LStrip(Tail(t)) ELSE t

RECURSIVE RStrip(_)
RStrip(t) ==
    IF t # <<>> /\ t[Len(t)] \in Whitespace
    THEN RStrip(SubSeq(t, 1, Len(t) - 1))
    ELSE t

Strip(t) == RStrip(LStrip(t))

\* value of a run of digits read as a decimal integer
RECURSIVE DigitsVal(_)
DigitsVal(t) ==
    IF t = <<>> THEN 0
    ELSE 10 * DigitsVal(SubSeq(t, 1, Len(t) - 1)) + DigitVal(t[Len(t)])

AllDigits(t) == \A i \in 1..Len(t) : t[i] \in Digits

\* the fractional digits of a decimal literal, in hundredths (the inputs of
\* the model carry at most two of them)
FracVal(t) ==
    IF Len(t) = 0 THEN 0
    ELSE IF Len(t) = 1 THEN 10 * DigitVal(t[1])
    ELSE 10 * DigitVal(t[1]) + DigitVal(t[2])

\* position of the first "." in t, or 0
DotPos(t) ==
    IF \E i \in 1..Len(t) : t[i] = "."
    THEN CHOOSE i \in 1..Len(t) : t[i] = "." /\ \A j \in 1..(i - 1) : t[j] # "."
    ELSE 0

\* an unsigned decimal literal: digits, optionally one ".", at least one digit
UnsignedOk(t) ==
    LET d == DotPos(t) IN
    IF d = 0 THEN Len(t) > 0 /\ AllDigits(t)
    ELSE /\ AllDigits(SubSeq(t, 1, d - 1))
         /\ AllDigits(SubSeq(t, d + 1, Len(t)))
         /\ Len(t) > 1

UnsignedVal(t) ==
    LET d == DotPos(t) IN
    IF d = 0 THEN 100 * DigitsVal(t)
    ELSE 100 * DigitsVal(SubSeq(t, 1, d - 1)) + FracVal(SubSeq(t, d + 1, Len(t)))

ValueError == [ok |-> FALSE, val |-> 0]

\* float(text): surrounding whitespace is ignored, then an optional sign and
\* a decimal literal; anything else raises ValueError.  (The texts of the
\* model are decimal literals and words float() rejects: no exponent, inf
\* or nan is among them.)
ParseFloat(text) ==
    LET s == Strip(text)
        signed == s # <<>> /\ Head(s) \in {"+", "-"}
        body == IF signed THEN Tail(s) ELSE s
    IN  IF UnsignedOk(body)
        THEN [ok |-> TRUE,
              val |-> IF signed /\ Head(s) = "-" THEN 0 - UnsignedVal(body)
                      ELSE UnsignedVal(body)]
        ELSE ValueError

(***************************************************************************)
(* numpy / pandas helpers.  Arrays are sequences, indexed from 1 (the      *)
(* Python index plus one).                                                 *)
(***************************************************************************)
None == <<>>

Abs(x) == IF x < 0 THEN 0 - x ELSE x

\* Python max(a, b)
Max2(a, b) == IF b > a THEN b ELSE a

RECURSIVE np_min(_)
np_min(a) ==
    IF Len(a) = 1 THEN a[1]
    ELSE LET m == np_min(Tail(a)) IN IF a[1] < m THEN a[1] ELSE m

RECURSIVE np_max(_)
np_max(a) ==
    IF Len(a) = 1 THEN a[1]
    ELSE LET m == np_max(Tail(a)) IN IF a[1] > m THEN a[1] ELSE m

\* the scan of np.argmin / Series.idxmin: left to right, a later element
\* replaces the best one only when it is strictly smaller
RECURSIVE ArgMinScan(_, _, _)
ArgMinScan(a, i, best) ==
    IF i > Len(a) THEN best
    ELSE ArgMinScan(a, i + 1, IF a[i] < a[best] THEN i ELSE best)

RECURSIVE ArgMinScanLast(_, _, _)
ArgMinScanLast(a, i, best) ==
    IF i > Len(a) THEN best
    ELSE ArgMinScanLast(a, i + 1, IF a[i] <= a[best] THEN i ELSE best)

\* mutant of np_argmin: the last occurrence of the minimum
np_argmin_last(a) == ArgMinScanLast(a, 2, 1)

np_argmin(a) == ArgMinScan(a, 2, 1)

\* column k of a 2-D array: data[:, k-1]
Column(data, k) == [i \in 1..Len(data) |-> data[i][k]]

\* np.abs(angles - expected_angle)
AbsDiff(angles, expected_angle) ==
    [i \in 1..Len(angles) |-> Abs(angles[i] - expected_angle)]

RECURSIVE Sum(_)
Sum(a) == IF a = <<>> THEN 0 ELSE a[1] + Sum(Tail(a))

RECURSIVE Gcd(_, _)
Gcd(a, b) == IF b = 0 THEN a ELSE Gcd(b, a % b)

RECURSIVE GcdAll(_)
GcdAll(a) == IF a = <<>> THEN 0 ELSE Gcd(Abs(a[1]), GcdAll(Tail(a)))

\* deviations from the mean, as integers: n * x[i] - sum(x), divided by their
\* common divisor (the correlation does not depend on the scale of a column)
Deviations(x) ==
    LET n == Len(x)
        d == [i \in 1..n |-> n * x[i] - Sum(x)]
        g == GcdAll(d)
    IN  IF g = 0 THEN d ELSE [i \in 1..n |-> d[i] \div g]

\* np.corrcoef(x, y)[0, 1] and Series.corr: the Pearson coefficient
\* cov / sqrt(var_x * var_y), kept exact as the pair cov, var_x * var_y.
\* With a zero variance (a constant column, a single sample) the quotient is
\* 0/0 and the result is nan: sq = 0.
corrcoef(x, y) ==
    LET dx == Deviations(x)
        dy == Deviations(y)
        n == Len(x)
    IN  [cov |-> Sum([i \in 1..n |-> dx[i] * dy[i]]),
         sq  |-> Sum([i \in 1..n |-> dx[i] * dx[i]])
                 * Sum([i \in 1..n |-> dy[i] * dy[i]])]

IsNaN(correlation) == correlation.sq = 0

(***************************************************************************)
(* The file system: each file is None when it does not exist, else         *)
(* <<content>>.  The content of expected_angle.txt is text; the content of *)
(* a CSV file is its rows as csv.reader yields them, each a tuple of       *)
(* fields, each field text.                                                *)
(***************************************************************************)
Exists(file) == file # None

Content(file) == file[1]

DEFAULT_EXPECTED_ANGLE == 500

DEFAULT_MARGIN == 50

\* mutant of resolve_expected_angle: the side-channel file is consulted
\* before the caller's value
resolve_expected_angle_file_first(cli_value, metadata) ==
    IF Exists(metadata) /\ ParseFloat(Strip(Content(metadata))).ok
    THEN ParseFloat(Strip(Content(metadata))).val
    ELSE IF cli_value # None THEN cli_value[1]
    ELSE DEFAULT_EXPECTED_ANGLE

\* metadata is the file results/expected_angle.txt
resolve_expected_angle(cli_value, metadata) ==
    IF cli_value # None THEN cli_value[1]
    ELSE IF Exists(metadata) /\ ParseFloat(Strip(Content(metadata))).ok
    THEN ParseFloat(Strip(Content(metadata))).val
    ELSE DEFAULT_EXPECTED_ANGLE

\* mutant of compute_centered_xlim: the window of the data, not centred
compute_centered_xlim_data(angles, expected_angle, margin) ==
    <<np_min(angles) - margin, np_max(angles) + margin>>

\* mutant of compute_centered_xlim: the half width is the smaller distance
compute_centered_xlim_small(angles, expected_angle, margin) ==
    LET a == expected_angle - np_min(angles)
        b == np_max(angles) - expected_angle
        half == (IF a < b THEN a ELSE b) + margin
    IN  <<expected_angle - half, expected_angle + half>>

compute_centered_xlim(angles, expected_angle, margin) ==
    LET data_min == np_min(angles)
        data_max == np_max(angles)
        half == Max2(expected_angle - data_min, data_max - expected_angle)
                + margin
        x_min == expected_angle - half
        x_max == expected_angle + half
    IN  <<x_min, x_max>>

RowParses(row) == \A k \in 1..Len(row) : ParseFloat(row[k]).ok

ParseRow(row) == [k \in 1..Len(row) |-> ParseFloat(row[k]).val]

Raised(exc) == [ok |-> FALSE, exc |-> exc, data |-> <<>>]

Returned(data) == [ok |-> TRUE, exc |-> "", data |-> data]

\* the loop of load_csv_data from row i (Python index i - 1) on
RECURSIVE LoadRows(_, _, _)
LoadRows(rows, i, data) ==
    IF i > Len(rows) THEN Returned(data)
    ELSE IF i = 1 /\ ~ParseFloat(rows[i][1]).ok
         THEN LoadRows(rows, i + 1, data)
    ELSE IF RowParses(rows[i])
         THEN LoadRows(rows, i + 1, Append(data, ParseRow(rows[i])))
    ELSE Raised("ValueError")

\* mutant: best-effort loading, a row that does not parse is dropped
RECURSIVE LoadRowsLenient(_, _, _)
LoadRowsLenient(rows, i, data) ==
    IF i > Len(rows) THEN Returned(data)
    ELSE IF RowParses(rows[i])
         THEN LoadRowsLenient(rows, i + 1, Append(data, ParseRow(rows[i])))
    ELSE LoadRowsLenient(rows, i + 1, data)

\* mutant of load_csv_data: the rows that parse
load_csv_data_lenient(rows) == LoadRowsLenient(rows, 1, <<>>)

\* load_csv_data(filepath), on the rows of the file
load_csv_data(rows) == LoadRows(rows, 1, <<>>)

\* pd.read_csv(path): row 0 is the header whatever it holds, the other rows
\* are the data.  (The files read by plot_results.py in this model have
\* numeric data fields only.)
pd_read_csv(rows) ==
    IF rows = <<>> THEN Raised("EmptyDataError")
    ELSE [ok |-> TRUE, exc |-> "", columns |-> rows[1],
          data |-> [i \in 1..(Len(rows) - 1) |-> ParseRow(rows[i + 1])]]

HasColumn(df, name) == \E k \in 1..Len(df.columns) : df.columns[k] = name

\* df[name]: the column labelled name
DfColumn(df, name) ==
    LET k == CHOOSE k \in 1..Len(df.columns) : df.columns[k] = name
    IN  Column(df.data, k)

(***************************************************************************)
(* Inputs of a run: the script, the value of --expected-angle and the      *)
(* files under results/.                                                   *)
(***************************************************************************)
MaxRows == 3

Scripts == {"p0126_2", "p0213_2", "p0213"}

angle_deg == <<"a", "n", "g", "l", "e", "_", "d", "e", "g">>

objective_function == <<"o", "b", "j", "e", "c", "t", "i", "v", "e">>

analytical_derivative == <<"a", "n", "a", "l", "y", "t", "i", "c", "a", "l">>

numerical_derivative == <<"n", "u", "m", "e", "r", "i", "c", "a", "l">>

Junk == <<"a", "b", "c">>

\* angle sweeps, as written in the files: -5, 10, 25, ...; 4.8, 5.0, ...;
\* 7.3, 7.5, ...
SweepWide ==
    << <<"-", "5">>, <<"1", "0">>, <<"2", "5">>, <<"4", "0">>, <<"5", "5">> >>

SweepNear5 ==
    << <<"4", ".", "8">>, <<"5", ".", "0">>, <<"5", ".", "2">>,
       <<"5", ".", "4">>, <<"5", ".", "6">> >>

SweepNear75 ==
    << <<"7", ".", "3">>, <<"7", ".", "5">>, <<"7", ".", "7">>,
       <<"7", ".", "9">>, <<"8", ".", "1">> >>

Sweeps == {SweepWide, SweepNear5, SweepNear75}

One == <<"1">>

Two == <<"2">>

Zero == <<"0">>

Thousand == <<"1", "0", "0", "0">>

MinusThousand == <<"-", "1", "0", "0", "0">>

ObjCells == {One, Two}

\* a derivative row's cells: analytical, numerical
DerivCells == {<<MinusThousand, Zero>>, <<MinusThousand, Thousand>>,
               <<Thousand, Zero>>, <<Thousand, Thousand>>}

RECURSIVE SeqsOfLen(_, _)
SeqsOfLen(S, n) ==
    IF n = 0 THEN {<<>>}
    ELSE {Append(q, x) : q \in SeqsOfLen(S, n - 1), x \in S}

SeqsUpTo(S, n) == UNION {SeqsOfLen(S, k) : k \in 0..n}

ObjectiveCsv(header, sweep, vals) ==
    (IF header THEN << <<angle_deg, objective_function>> >> ELSE <<>>)
    \o [i \in 1..Len(vals) |-> <<sweep[i], vals[i]>>]

DerivativesCsv(header, sweep, vals) ==
    (IF header
     THEN << <<angle_deg, analytical_derivative, numerical_derivative>> >>
     ELSE <<>>)
    \o [i \in 1..Len(vals) |-> <<sweep[i], vals[i][1], vals[i][2]>>]

\* objective files whose data fields are all numbers
CleanObjectiveFiles ==
    {ObjectiveCsv(h, sw, v) :
        h \in BOOLEAN, sw \in Sweeps, v \in SeqsUpTo(ObjCells, MaxRows)}

\* objective files with a field that is no number somewhere
DirtyObjectiveFiles ==
    {ObjectiveCsv(h, SweepNear5, v) :
        h \in BOOLEAN,
        v \in SeqsUpTo(ObjCells \cup {Junk}, MaxRows) \ SeqsUpTo(ObjCells, MaxRows)}
    \cup {<< <<angle_deg, objective_function>>, <<Junk, One>>,
             <<SweepNear5[1], Two>> >>,
          << <<SweepNear5[1], Two>>, <<Junk, One>> >>}

CleanDerivativeFiles ==
    {DerivativesCsv(h, sw, v) :
        h \in BOOLEAN, sw \in Sweeps, v \in SeqsUpTo(DerivCells, MaxRows)}

DirtyDerivativeFiles ==
    {<< <<angle_deg, analytical_derivative, numerical_derivative>>,
        <<SweepNear5[1], MinusThousand, Zero>>,
        <<SweepNear5[2], Thousand, Junk>> >>,
     << <<SweepNear5[1], MinusThousand, Zero>>,
        <<Junk, Thousand, Zero>> >>}

BaseObjectiveFiles ==
    {ObjectiveCsv(TRUE, SweepNear5, <<Two, One>>),
     ObjectiveCsv(FALSE, SweepNear75, <<Two, One>>)}

BaseDerivativeFiles ==
    {DerivativesCsv(TRUE, SweepNear5, <<<<MinusThousand, Zero>>, <<Thousand, Zero>>>>),
     DerivativesCsv(FALSE, SweepNear75,
                    <<<<MinusThousand, MinusThousand>>, <<Thousand, Thousand>>>>)}

ExpectedAngleTexts ==
    {<<"7", ".", "5">>, <<"7", ".", "5", "\n">>, Junk, <<>>}

Files(meta, obj, deriv) ==
    [expected_angle_txt |-> meta, objective_csv |-> obj, derivatives_csv |-> deriv]

Run(s, cli, files) == [script |-> s, cli_value |-> cli, fs |-> files]

\* plot_results.py reads its files with pandas: it is given clean files only
ObjectiveFilesOf(s) ==
    IF s = "p0213" THEN CleanObjectiveFiles
    ELSE CleanObjectiveFiles \cup DirtyObjectiveFiles

DerivativeFilesOf(s) ==
    IF s = "p0213" THEN CleanDerivativeFiles
    ELSE CleanDerivativeFiles \cup DirtyDerivativeFiles

SomeMeta == {None, <<<<"7", ".", "5", "\n">>>>}

\* runs that vary the objective file
ObjectiveRuns ==
    {Run(s, None, Files(m, <<o>>, <<d>>)) :
        s \in Scripts, m \in SomeMeta,
        o \in UNION {ObjectiveFilesOf(t) : t \in Scripts},
        d \in BaseDerivativeFiles}

\* runs that vary the derivative file
DerivativeRuns ==
    {Run(s, None, Files(m, <<o>>, <<d>>)) :
        s \in Scripts, m \in SomeMeta,
        o \in BaseObjectiveFiles,
        d \in UNION {DerivativeFilesOf(t) : t \in Scripts}}

\* runs that vary the sources of the expected angle and the presence of
\* the input files
ConfigRuns ==
    {Run(s, cli, Files(m, o, d)) :
        s \in Scripts,
        cli \in {None, <<520>>},
        m \in {None} \cup {<<t>> : t \in ExpectedAngleTexts},
        o \in {None} \cup {<<f>> : f \in BaseObjectiveFiles},
        d \in {None} \cup {<<f>> : f \in BaseDerivativeFiles}}

Inputs ==
    {r \in ObjectiveRuns \cup DerivativeRuns \cup ConfigRuns :
        /\ r.fs.objective_csv # None
            => Content(r.fs.objective_csv) \in ObjectiveFilesOf(r.script)
        /\ r.fs.derivatives_csv # None
            => Content(r.fs.derivatives_csv) \in DerivativeFilesOf(r.script)}

(***************************************************************************)
(* State of one run of main()                                              *)
(***************************************************************************)
VARIABLES
    script,          \* which script runs
    cli_value,       \* args.expected_angle
    fs,              \* the files under results/
    pc,              \* position in main()
    result,          \* "running", "completed", "returned" or the exception
    expected_angle,  \* main's expected_angle, None before it is resolved
    obj_data,        \* main's obj_data, None before it is loaded
    deriv_data,      \* main's deriv_data
    plots,           \* what was handed to matplotlib for each figure
    stats,           \* the values print_statistics has computed and printed
    verdict,         \* the outcome of each check of print_statistics
    out,             \* the diagnostics printed so far
    call,            \* a direct call of compute_centered_xlim: its arguments
    ret              \* and the value it returned (None in a run of main)

vars == <<script, cli_value, fs, pc, result, expected_angle, obj_data,
          deriv_data, plots, stats, verdict, out, call, ret>>

HARDCODED_ANGLE == 500

ANGLE_TOLERANCE == 20

DERIVATIVE_LIMIT == 100000

WARNING_ERROR == 100

NoPlots == [objective |-> None, derivatives |-> None]

NoStats ==
    [min_angle |-> None, min_value |-> None, angle_error |-> None,
     idx_expected |-> None, numerical_at_expected |-> None,
     analytical_at_expected |-> None, correlation |-> None]

NoVerdict ==
    [minimum_ok |-> None, correlation_ok |-> None,
     derivative_near_zero_ok |-> None, success |-> None, overall_ok |-> None]

Init ==
    \E r \in Inputs :
        /\ script = r.script
        /\ cli_value = r.cli_value
        /\ fs = r.fs
        /\ pc = IF r.script = "p0126_2" THEN "check" ELSE "resolve"
        /\ result = "running"
        /\ expected_angle = None
        /\ obj_data = None
        /\ deriv_data = None
        /\ plots = NoPlots
        /\ stats = NoStats
        /\ verdict = NoVerdict
        /\ out = <<>>
        /\ call = None
        /\ ret = None

\* an exception leaves main(): the run ends there
Raise(exc) ==
    /\ pc' = "exit"
    /\ result' = exc

\* resolve_expected_angle: float(f.read().strip()) raises ValueError (the
\* file is read only when no caller value is given and the file exists)
FloatRaises(cli, metadata) ==
    /\ cli = None
    /\ Exists(metadata)
    /\ ~ParseFloat(Strip(Content(metadata))).ok

\* mutant: the try block has no except clause
CaughtNothing(exc) == FALSE

\* resolve_expected_angle: except ValueError
Caught(exc) == exc = "ValueError"

\* main of the 02.13 scripts: expected_angle = resolve_expected_angle(...)
ResolveExpectedAngle ==
    /\ pc = "resolve"
    /\ IF FloatRaises(cli_value, fs.expected_angle_txt) /\ ~Caught("ValueError")
       THEN /\ Raise("ValueError")
            /\ UNCHANGED <<expected_angle, out>>
       ELSE LET e == resolve_expected_angle(cli_value, fs.expected_angle_txt) IN
            /\ expected_angle' = <<e>>
            /\ out' = Append(out, <<"expected_angle", e>>)
            /\ pc' = "check"
            /\ UNCHANGED result
    /\ UNCHANGED <<call, ret, script, cli_value, fs, obj_data, deriv_data,
                   plots, stats, verdict>>

\* mutant of CheckInputs: only the objective file is tested
CheckInputsObjectiveOnly ==
    /\ pc = "check"
    /\ IF ~Exists(fs.objective_csv)
       THEN /\ out' = Append(out, <<"not_found", "results/objective_function.csv">>)
            /\ pc' = "exit"
            /\ result' = "returned"
       ELSE /\ pc' = IF script = "p0213" THEN "plot_obj" ELSE "load_obj"
            /\ UNCHANGED <<out, result>>
    /\ UNCHANGED <<call, ret, script, cli_value, fs, expected_angle, obj_data,
                   deriv_data, plots, stats, verdict>>

\* main: the os.path.exists tests of the two input files
CheckInputs ==
    /\ pc = "check"
    /\ IF ~Exists(fs.objective_csv)
       THEN /\ out' = Append(out, <<"not_found", "results/objective_function.csv">>)
            /\ pc' = "exit"
            /\ result' = "returned"
       ELSE IF ~Exists(fs.derivatives_csv)
       THEN /\ out' = Append(out, <<"not_found", "results/derivatives.csv">>)
            /\ pc' = "exit"
            /\ result' = "returned"
       ELSE /\ pc' = IF script = "p0213" THEN "plot_obj" ELSE "load_obj"
            /\ UNCHANGED <<out, result>>
    /\ UNCHANGED <<call, ret, script, cli_value, fs, expected_angle, obj_data,
                   deriv_data, plots, stats, verdict>>

\* main of the plot_results_2 scripts: obj_data = load_csv_data(obj_csv) and
\* the slices obj_data[:, 0], obj_data[:, 1] (an empty array has one
\* dimension only: IndexError)
LoadObjective ==
    /\ pc = "load_obj"
    /\ LET r == load_csv_data(Content(fs.objective_csv)) IN
        IF ~r.ok THEN Raise(r.exc) /\ UNCHANGED obj_data
        ELSE IF r.data = <<>> THEN Raise("IndexError") /\ UNCHANGED obj_data
        ELSE /\ obj_data' = <<r.data>>
             /\ pc' = "load_deriv"
             /\ UNCHANGED result
    /\ UNCHANGED <<call, ret, script, cli_value, fs, expected_angle, deriv_data, plots,
                   stats, verdict, out>>

LoadDerivatives ==
    /\ pc = "load_deriv"
    /\ LET r == load_csv_data(Content(fs.derivatives_csv)) IN
        IF ~r.ok THEN Raise(r.exc) /\ UNCHANGED <<deriv_data, out>>
        ELSE IF r.data = <<>>
        THEN Raise("IndexError") /\ UNCHANGED <<deriv_data, out>>
        ELSE /\ deriv_data' = <<r.data>>
             /\ out' = Append(out, <<"points", Len(obj_data[1]), Len(r.data)>>)
             /\ pc' = "plot_obj"
             /\ UNCHANGED result
    /\ UNCHANGED <<call, ret, script, cli_value, fs, expected_angle, obj_data, plots,
                   stats, verdict>>

\* the objective series a step works on: the slices of obj_data in the
\* plot_results_2 scripts, a fresh pd.read_csv in plot_results.py
ObjectiveSeries ==
    IF script = "p0213"
    THEN LET df == pd_read_csv(Content(fs.objective_csv)) IN
         [angles |-> DfColumn(df, angle_deg),
          values |-> DfColumn(df, objective_function)]
    ELSE [angles |-> Column(obj_data[1], 1),
          values |-> Column(obj_data[1], 2)]

DerivativeSeries ==
    IF script = "p0213"
    THEN LET df == pd_read_csv(Content(fs.derivatives_csv)) IN
         [angles |-> DfColumn(df, angle_deg),
          analytical |-> DfColumn(df, analytical_derivative),
          numerical |-> DfColumn(df, numerical_derivative)]
    ELSE [angles |-> Column(deriv_data[1], 1),
          analytical |-> Column(deriv_data[1], 2),
          numerical |-> Column(deriv_data[1], 3)]

\* the exception pd.read_csv and the column lookups of plot_results.py
\* raise on a file, "" when there is none
FrameError(rows, names) ==
    LET df == pd_read_csv(rows) IN
    IF ~df.ok THEN df.exc
    ELSE IF \E n \in names : ~HasColumn(df, n) THEN "KeyError"
    ELSE IF df.data = <<>> THEN "ValueError"
    ELSE ""

\* mutant of LocateMinimum: the last occurrence of the minimum
LocateMinimumLast(angles, values) ==
    LET min_idx == np_argmin_last(values) IN
    [min_idx |-> min_idx, min_angle |-> angles[min_idx],
     min_value |-> values[min_idx]]

\* min_idx, min_angle, min_value of plot_objective_function and
\* print_statistics
LocateMinimum(angles, values) ==
    LET min_idx == np_argmin(values) IN
    [min_idx |-> min_idx, min_angle |-> angles[min_idx],
     min_value |-> values[min_idx]]

\* the angle the script compares with: the literal 5.0 in 01.26, the
\* resolved expected_angle in 02.13
ComparedAngle ==
    IF script = "p0126_2" THEN HARDCODED_ANGLE ELSE expected_angle[1]

\* the x range of a figure: plt.xlim(angles[0], angles[-1]) in 01.26,
\* compute_centered_xlim in 02.13
XLim(angles) ==
    IF script = "p0126_2" THEN <<angles[1], angles[Len(angles)]>>
    ELSE compute_centered_xlim(angles, expected_angle[1], DEFAULT_MARGIN)

\* what a read of a CSV file leaves in main's data variable: nothing in the
\* plot_results_2 scripts, which have loaded it before; the rows of the
\* DataFrame in plot_results.py
FrameRead(rows, data) ==
    IF script = "p0213" /\ pd_read_csv(rows).ok
    THEN <<pd_read_csv(rows).data>>
    ELSE data

PlotObjective ==
    /\ pc = "plot_obj"
    /\ obj_data' = FrameRead(Content(fs.objective_csv), obj_data)
    /\ LET err == IF script = "p0213"
                  THEN FrameError(Content(fs.objective_csv),
                                  {angle_deg, objective_function})
                  ELSE ""
       IN
        IF err # "" THEN Raise(err) /\ UNCHANGED plots
        ELSE LET s == ObjectiveSeries
                 m == LocateMinimum(s.angles, s.values)
             IN  /\ plots' = [plots EXCEPT !.objective =
                        <<[marker |-> <<<<m.min_angle, m.min_value>>>>,
                           vline |-> ComparedAngle,
                           xlim |-> XLim(s.angles)]>>]
                 /\ pc' = "plot_deriv"
                 /\ UNCHANGED result
    /\ UNCHANGED <<call, ret, script, cli_value, fs, expected_angle,
                   deriv_data, stats, verdict, out>>

PlotDerivatives ==
    /\ pc = "plot_deriv"
    /\ deriv_data' = FrameRead(Content(fs.derivatives_csv), deriv_data)
    /\ LET err == IF script = "p0213"
                  THEN FrameError(Content(fs.derivatives_csv),
                                  {angle_deg, analytical_derivative,
                                   numerical_derivative})
                  ELSE ""
       IN
        IF err # "" THEN Raise(err) /\ UNCHANGED plots
        ELSE LET s == DerivativeSeries IN
             /\ plots' = [plots EXCEPT !.derivatives =
                    <<[marker |-> None,
                       vline |-> ComparedAngle,
                       xlim |-> XLim(s.angles)]>>]
             /\ pc' = "stats_min"
             /\ UNCHANGED result
    /\ UNCHANGED <<call, ret, script, cli_value, fs, expected_angle, obj_data,
                   stats, verdict, out>>

\* print_statistics, first part: the minimum of the objective function
StatisticsMinimum ==
    /\ pc = "stats_min"
    /\ LET s == ObjectiveSeries
           m == LocateMinimum(s.angles, s.values)
           angle_error == Abs(m.min_angle - ComparedAngle)
           line == <<"minimum", m.min_angle, m.min_value, angle_error>>
       IN
        /\ stats' = [stats EXCEPT !.min_angle = <<m.min_angle>>,
                                  !.min_value = <<m.min_value>>,
                                  !.angle_error = <<angle_error>>]
        /\ out' = IF script = "p0213" /\ angle_error > WARNING_ERROR
                  THEN out \o <<line, <<"warning", m.min_angle>>>>
                  ELSE Append(out, line)
    /\ pc' = "stats_near"
    /\ UNCHANGED <<call, ret, script, cli_value, fs, result, expected_angle, obj_data,
                   deriv_data, plots, verdict>>

\* the angle column in which the sample nearest to the expected angle is
\* looked up: print_statistics' parameter angles, which main binds to
\* angles_obj, in the plot_results_2 scripts; df_der['angle_deg'] in
\* plot_results.py
LookupAngles ==
    IF script = "p0213" THEN DerivativeSeries.angles
    ELSE ObjectiveSeries.angles

\* print_statistics, second part: the derivatives near the expected angle
StatisticsNearExpected ==
    /\ pc = "stats_near"
    /\ LET d == DerivativeSeries
           idx_expected == np_argmin(AbsDiff(LookupAngles, ComparedAngle))
       IN
        IF idx_expected > Len(d.numerical)
        THEN Raise("IndexError") /\ UNCHANGED <<stats, out>>
        ELSE /\ stats' = [stats EXCEPT
                    !.idx_expected = <<idx_expected>>,
                    !.numerical_at_expected = <<d.numerical[idx_expected]>>,
                    !.analytical_at_expected = <<d.analytical[idx_expected]>>]
             /\ out' = Append(out, <<"near_expected",
                                     d.numerical[idx_expected],
                                     d.analytical[idx_expected]>>)
             /\ pc' = "stats_corr"
             /\ UNCHANGED result
    /\ UNCHANGED <<call, ret, script, cli_value, fs, expected_angle, obj_data,
                   deriv_data, plots, verdict>>

\* print_statistics, third part: the correlation of the two derivative
\* columns (01.26 also prints the RMSE, which nothing else uses).  In 01.26
\* the checks follow, starting from success = True; in 02.13 main ends.
StatisticsCorrelation ==
    /\ pc = "stats_corr"
    /\ LET d == DerivativeSeries
           correlation == corrcoef(d.numerical, d.analytical)
       IN
        /\ stats' = [stats EXCEPT !.correlation = <<correlation>>]
        /\ out' = Append(out, <<"correlation", correlation>>)
    /\ IF script = "p0126_2"
       THEN /\ pc' = "judge_min"
            /\ verdict' = [verdict EXCEPT !.success = <<TRUE>>]
            /\ UNCHANGED result
       ELSE /\ pc' = "exit"
            /\ result' = "completed"
            /\ UNCHANGED verdict
    /\ UNCHANGED <<call, ret, script, cli_value, fs, expected_angle, obj_data,
                   deriv_data, plots>>

(***************************************************************************)
(* The checks at the end of print_statistics (01.26 only)                  *)
(***************************************************************************)
\* mutant of MinimumCheck: the boundary passes
MinimumCheckInclusive(min_angle) ==
    Abs(min_angle - HARDCODED_ANGLE) <= ANGLE_TOLERANCE

\* abs(min_angle - 5.0) < 0.2
MinimumCheck(min_angle) == Abs(min_angle - HARDCODED_ANGLE) < ANGLE_TOLERANCE

\* correlation > 0.95, on cov / sqrt(sq): 0.95 is 19/20, so the test is
\* cov > 0 and 400 cov^2 > 361 sq.  A nan compares False.
CorrelationCheck(correlation) ==
    /\ ~IsNaN(correlation)
    /\ correlation.cov > 0
    /\ 400 * correlation.cov * correlation.cov > 361 * correlation.sq

\* abs(num_deriv[idx_5deg]) < 1000
DerivativeCheck(numerical) == Abs(numerical) < DERIVATIVE_LIMIT

JudgeMinimum ==
    /\ pc = "judge_min"
    /\ IF MinimumCheck(stats.min_angle[1])
       THEN /\ verdict' = [verdict EXCEPT !.minimum_ok = <<TRUE>>]
            /\ out' = Append(out, <<"ok", "minimum">>)
       ELSE /\ verdict' = [verdict EXCEPT !.minimum_ok = <<FALSE>>,
                                          !.success = <<FALSE>>]
            /\ out' = Append(out, <<"ng", "minimum">>)
    /\ pc' = "judge_corr"
    /\ UNCHANGED <<call, ret, script, cli_value, fs, result, expected_angle, obj_data,
                   deriv_data, plots, stats>>

\* mutant of JudgeCorrelation: a passing criterion sets success again
JudgeCorrelationResets ==
    /\ pc = "judge_corr"
    /\ IF CorrelationCheck(stats.correlation[1])
       THEN /\ verdict' = [verdict EXCEPT !.correlation_ok = <<TRUE>>,
                                          !.success = <<TRUE>>]
            /\ out' = Append(out, <<"ok", "correlation">>)
       ELSE /\ verdict' = [verdict EXCEPT !.correlation_ok = <<FALSE>>,
                                          !.success = <<FALSE>>]
            /\ out' = Append(out, <<"ng", "correlation">>)
    /\ pc' = "judge_deriv"
    /\ UNCHANGED <<call, ret, script, cli_value, fs, result, expected_angle, obj_data,
                   deriv_data, plots, stats>>

JudgeCorrelation ==
    /\ pc = "judge_corr"
    /\ IF CorrelationCheck(stats.correlation[1])
       THEN /\ verdict' = [verdict EXCEPT !.correlation_ok = <<TRUE>>]
            /\ out' = Append(out, <<"ok", "correlation">>)
       ELSE /\ verdict' = [verdict EXCEPT !.correlation_ok = <<FALSE>>,
                                          !.success = <<FALSE>>]
            /\ out' = Append(out, <<"ng", "correlation">>)
    /\ pc' = "judge_deriv"
    /\ UNCHANGED <<call, ret, script, cli_value, fs, result, expected_angle, obj_data,
                   deriv_data, plots, stats>>

JudgeDerivative ==
    /\ pc = "judge_deriv"
    /\ IF DerivativeCheck(stats.numerical_at_expected[1])
       THEN /\ verdict' = [verdict EXCEPT !.derivative_near_zero_ok = <<TRUE>>]
            /\ out' = Append(out, <<"ok", "derivative">>)
       ELSE /\ verdict' = [verdict EXCEPT !.derivative_near_zero_ok = <<FALSE>>,
                                          !.success = <<FALSE>>]
            /\ out' = Append(out, <<"ng", "derivative">>)
    /\ pc' = "judge_summary"
    /\ UNCHANGED <<call, ret, script, cli_value, fs, result, expected_angle, obj_data,
                   deriv_data, plots, stats>>

\* if success: ... else: ..., then main prints its last line and ends
JudgeSummary ==
    /\ pc = "judge_summary"
    /\ verdict' = [verdict EXCEPT !.overall_ok = verdict.success]
    /\ out' = Append(out, <<IF verdict.success[1] THEN "all_ok" ELSE "problems",
                            "summary">>)
    /\ pc' = "exit"
    /\ result' = "completed"
    /\ UNCHANGED <<call, ret, script, cli_value, fs, expected_angle, obj_data,
                   deriv_data, plots, stats>>

Next ==
    \/ ResolveExpectedAngle
    \/ CheckInputs
    \/ LoadObjective
    \/ LoadDerivatives
    \/ PlotObjective
    \/ PlotDerivatives
    \/ StatisticsMinimum
    \/ StatisticsNearExpected
    \/ StatisticsCorrelation
    \/ JudgeMinimum
    \/ JudgeCorrelation
    \/ JudgeDerivative
    \/ JudgeSummary

Spec == Init /\ [][Next]_vars

(***************************************************************************)
(* The checks of print_statistics on their own: a run of 01.26 that has    *)
(* reached the checks, with the three values they read drawn from sets     *)
(* that hold the thresholds and their neighbours.  The files and the data  *)
(* that gave these values are left open.                                   *)
(***************************************************************************)
JudgedMinAngles == {470, 480, 481, 490, 500, 519, 520, 530}

JudgedCorrelations ==
    {[cov |-> 1, sq |-> 1], [cov |-> 24, sq |-> 625], [cov |-> 97, sq |-> 10000],
     [cov |-> 19, sq |-> 400], [cov |-> 9, sq |-> 100], [cov |-> 0, sq |-> 1],
     [cov |-> 0, sq |-> 0], [cov |-> -1, sq |-> 1]}

JudgedDerivatives == {-150000, -100000, -99999, 0, 50000, 99999, 100000, 150000}

JudgeInit ==
    \E a \in JudgedMinAngles, c \in JudgedCorrelations, n \in JudgedDerivatives :
        /\ script = "p0126_2"
        /\ cli_value = None
        /\ fs = Files(None, <<<<>>>>, <<<<>>>>)
        /\ pc = "judge_min"
        /\ result = "running"
        /\ expected_angle = None
        /\ obj_data = None
        /\ deriv_data = None
        /\ plots = NoPlots
        /\ stats = [NoStats EXCEPT !.min_angle = <<a>>,
                                   !.angle_error = <<Abs(a - HARDCODED_ANGLE)>>,
                                   !.correlation = <<c>>,
                                   !.numerical_at_expected = <<n>>]
        /\ verdict = [NoVerdict EXCEPT !.success = <<TRUE>>]
        /\ out = <<>>
        /\ call = None
        /\ ret = None

JudgeNext ==
    \/ JudgeMinimum
    \/ JudgeCorrelation
    \/ JudgeDerivative
    \/ JudgeSummary

JudgeSpec == JudgeInit /\ [][JudgeNext]_vars

(***************************************************************************)
(* compute_centered_xlim on its own: one call, with the angle column, the  *)
(* expected angle and the margin drawn from small sets.                    *)
(***************************************************************************)
CalledAngles == {-500, 480, 500, 1000}

CalledExpected == {-700, 500, 750, 1200}

CalledMargins == {0, 50, 125}

XlimInit ==
    \E a \in SeqsUpTo(CalledAngles, MaxRows) \ {<<>>},
       e \in CalledExpected, m \in CalledMargins :
        /\ call = <<[angles |-> a, expected_angle |-> e, margin |-> m]>>
        /\ ret = None
        /\ script = "p0213_2"
        /\ cli_value = None
        /\ fs = Files(None, None, None)
        /\ pc = "call"
        /\ result = "running"
        /\ expected_angle = None
        /\ obj_data = None
        /\ deriv_data = None
        /\ plots = NoPlots
        /\ stats = NoStats
        /\ verdict = NoVerdict
        /\ out = <<>>

CallComputeCenteredXlim ==
    /\ pc = "call"
    /\ ret' = <<compute_centered_xlim(call[1].angles, call[1].expected_angle,
                                      call[1].margin)>>
    /\ pc' = "exit"
    /\ result' = "completed"
    /\ UNCHANGED <<call, script, cli_value, fs, expected_angle, obj_data,
                   deriv_data, plots, stats, verdict, out>>

XlimNext == CallComputeCenteredXlim

XlimSpec == XlimInit /\ [][XlimNext]_vars

(***************************************************************************)
(* Properties                                                              *)
(***************************************************************************)
Resolved == expected_angle # None

SevenPointFive == {<<<<"7", ".", "5">>>>, <<<<"7", ".", "5", "\n">>>>}

\* C1: resolve_expected_angle returns the first available source: the
\* caller's value when there is one, whatever the side-channel file holds;
\* else the number written in results/expected_angle.txt (7.5 for "7.5");
\* else, with no such file, 5.0.
C1_ResolutionOrder ==
    Resolved =>
        /\ cli_value # None => expected_angle = cli_value
        /\ (cli_value = None /\ fs.expected_angle_txt \in SevenPointFive)
            => expected_angle = <<750>>
        /\ (cli_value = None /\ fs.expected_angle_txt = None)
            => expected_angle = <<500>>

\* a run given --expected-angle 5.2 while expected_angle.txt holds 7.5 has
\* resolved 5.2
C1_Witness ==
    /\ Resolved
    /\ cli_value = <<520>>
    /\ fs.expected_angle_txt \in SevenPointFive
    /\ expected_angle = <<520>>

\* the correlations of JudgedCorrelations above 0.95: 1.0, 0.96, 0.97
AboveThreshold ==
    {[cov |-> 1, sq |-> 1], [cov |-> 24, sq |-> 625], [cov |-> 97, sq |-> 10000]}

\* C2: minimum_ok iff angle_error < 0.2, correlation_ok iff correlation >
\* 0.95, derivative_near_zero_ok iff |numerical derivative| < 1000, all
\* strict, and overall_ok iff the three hold.
C2_JudgeCriteria ==
    /\ verdict.minimum_ok # None
        => (verdict.minimum_ok[1] <=> stats.angle_error[1] < 20)
    /\ verdict.correlation_ok # None
        => (verdict.correlation_ok[1] <=> stats.correlation[1] \in AboveThreshold)
    /\ verdict.derivative_near_zero_ok # None
        => (verdict.derivative_near_zero_ok[1]
            <=> (/\ stats.numerical_at_expected[1] < 100000
                 /\ stats.numerical_at_expected[1] > -100000))
    /\ verdict.overall_ok # None
        => (verdict.overall_ok[1]
            <=> (/\ verdict.minimum_ok[1]
                 /\ verdict.correlation_ok[1]
                 /\ verdict.derivative_near_zero_ok[1]))

\* angle_error = 0.3 with correlation 0.97 and derivative 500: only
\* minimum_ok fails, and overall_ok with it
C2_Witness ==
    /\ pc = "exit"
    /\ stats.angle_error = <<30>>
    /\ stats.correlation = <<[cov |-> 97, sq |-> 10000]>>
    /\ stats.numerical_at_expected = <<50000>>
    /\ verdict.minimum_ok = <<FALSE>>
    /\ verdict.correlation_ok = <<TRUE>>
    /\ verdict.derivative_near_zero_ok = <<TRUE>>
    /\ verdict.overall_ok = <<FALSE>>

\* the expected angle the resolution order gives for the inputs of the run
ResolvedForRun ==
    IF cli_value # None THEN cli_value[1]
    ELSE IF fs.expected_angle_txt \in SevenPointFive THEN 750
    ELSE 500

\* C3: the reported angle_error and the judgment minimum_ok are computed
\* against the expected angle resolved for the run:
\* angle_error = |min_angle - ExpectedAngle|.
C3_JudgedAgainstResolvedAngle ==
    /\ stats.angle_error # None
        => stats.angle_error[1] = Abs(stats.min_angle[1] - ResolvedForRun)
    /\ verdict.minimum_ok # None
        => (verdict.minimum_ok[1]
            <=> Abs(stats.min_angle[1] - ResolvedForRun) < 20)

Values(a) == {a[i] : i \in 1..Len(a)}

Least(S) == CHOOSE m \in S : \A x \in S : m <= x

Greatest(S) == CHOOSE m \in S : \A x \in S : m >= x

\* the half width the contract asks for
HalfWidth(angles, expected, margin) ==
    LET below == expected - Least(Values(angles))
        above == Greatest(Values(angles)) - expected
    IN  (IF below >= above THEN below ELSE above) + margin

\* C4: compute_centered_xlim returns (expected - half, expected + half) with
\* half = max(expected - data_min, data_max - expected) + margin, so the
\* window is symmetric about the expected angle.
C4_CenteredWindow ==
    ret # None =>
        LET c == call[1]
            half == HalfWidth(c.angles, c.expected_angle, c.margin)
        IN  /\ ret[1] = <<c.expected_angle - half, c.expected_angle + half>>
            /\ c.expected_angle - ret[1][1] = ret[1][2] - c.expected_angle

\* angles 4.8 and -5, expected angle -7 below all of them, margin 1.25:
\* the window is (-20.05, 6.05)
C4_Witness ==
    /\ ret = <<<<-2005, 605>>>>
    /\ call = <<[angles |-> <<480, -500>>, expected_angle |-> -700,
                 margin |-> 125]>>

Covers(xlim, angles, expected) ==
    /\ xlim[1] <= expected
    /\ expected <= xlim[2]
    /\ \A a \in Values(angles) : xlim[1] <= a /\ a <= xlim[2]

\* C5: every window the 02.13 scripts get from compute_centered_xlim with
\* the default margin holds the expected angle and every angle of the
\* plotted series.
C5_WindowCoversData ==
    script # "p0126_2" =>
        /\ plots.objective # None
            => Covers(plots.objective[1].xlim, ObjectiveSeries.angles,
                      expected_angle[1])
        /\ plots.derivatives # None
            => Covers(plots.derivatives[1].xlim, DerivativeSeries.angles,
                      expected_angle[1])

\* the expected angle 7.5 lies outside the sweep 4.8, 5.0: the window of the
\* objective figure is (4.3, 10.7)
C5_Witness ==
    /\ script # "p0126_2"
    /\ expected_angle = <<750>>
    /\ plots.objective # None
    /\ ObjectiveSeries.angles = <<480, 500>>
    /\ plots.objective[1].xlim = <<430, 1070>>

\* the call of the example: data_min = -5, data_max = 10, expected = 5,
\* margin = 0.5
ExampleCall ==
    /\ ret # None
    /\ Least(Values(call[1].angles)) = -500
    /\ Greatest(Values(call[1].angles)) = 1000
    /\ call[1].expected_angle = 500
    /\ call[1].margin = 50

\* C6 as stated: for data_min = -5, data_max = 10, expected = 5 and
\* margin = 0.5 the result is (-5.5, 10.5).
C6_ExampleAsStated == ExampleCall => ret[1] = <<-550, 1050>>

\* C6, amended: for data_min = -5, data_max = 10, expected = 5 and
\* margin = 0.5 the result is (-5.5, 15.5).
C6_Example == ExampleCall => ret[1] = <<-550, 1550>>

C6_Witness == ExampleCall /\ call[1].angles = <<-500, 1000>>

\* the first index at which values holds its least element
FirstMinimum(values) ==
    Least({i \in 1..Len(values) : values[i] = Least(Values(values))})

\* C7: the Minimum Locator returns the angle and the value of the sample at
\* the smallest index at which the objective column is minimal (the first
\* occurrence when the minimum occurs more than once).
C7_FirstMinimum ==
    /\ stats.min_angle # None
        => LET s == ObjectiveSeries
               i == FirstMinimum(s.values)
           IN  /\ stats.min_angle = <<s.angles[i]>>
               /\ stats.min_value = <<s.values[i]>>
    /\ plots.objective # None
        => LET s == ObjectiveSeries
               i == FirstMinimum(s.values)
           IN  plots.objective[1].marker = <<<<s.angles[i], s.values[i]>>>>

\* the objective values 2, 1, 1: the minimum is reported at the second sample
C7_Witness ==
    /\ stats.min_angle # None
    /\ ObjectiveSeries.values = <<200, 100, 100>>
    /\ stats.min_angle = <<ObjectiveSeries.angles[2]>>
    /\ ObjectiveSeries.angles[2] # ObjectiveSeries.angles[3]

\* C8: the near-expected derivative values reported are those of a sample
\* of the derivative series whose angle is nearest to the expected angle,
\* whatever the angle column of the objective series is.
C8_NearestDerivativeSample ==
    stats.numerical_at_expected # None =>
        LET d == DerivativeSeries IN
        \E i \in 1..Len(d.angles) :
            /\ \A j \in 1..Len(d.angles) :
                Abs(d.angles[i] - ComparedAngle) <= Abs(d.angles[j] - ComparedAngle)
            /\ stats.numerical_at_expected = <<d.numerical[i]>>
            /\ stats.analytical_at_expected = <<d.analytical[i]>>

IsNumber(text) == ParseFloat(text).ok

\* the rows the Series Loader is to keep: all of them, but for a row 0 whose
\* first field is no number
KeptRows(rows) ==
    IF rows # <<>> /\ ~IsNumber(rows[1][1]) THEN Tail(rows) ELSE rows

NumbersOf(rows) ==
    [i \in 1..Len(rows) |-> [k \in 1..Len(rows[i]) |-> ParseFloat(rows[i][k]).val]]

\* C9: a loaded series consists of all the rows of the file, in order, row 0
\* included unless its first field is no number.
C9_HeaderHeuristic ==
    /\ obj_data # None
        => obj_data[1] = NumbersOf(KeptRows(Content(fs.objective_csv)))
    /\ deriv_data # None
        => deriv_data[1] = NumbersOf(KeptRows(Content(fs.derivatives_csv)))

\* a field of a row other than a skipped header is no number
BadField(rows) ==
    \E i \in 1..Len(KeptRows(rows)) :
        \E k \in 1..Len(KeptRows(rows)[i]) : ~IsNumber(KeptRows(rows)[i][k])

BothExist == Exists(fs.objective_csv) /\ Exists(fs.derivatives_csv)

\* C10: in the plot_results_2 scripts a file with a field that is no number
\* outside a skipped header makes the load raise: no series is returned for
\* it, and the run ends there without a figure, statistics or a verdict.
C10_ParseErrorAborts ==
    (script # "p0213" /\ BothExist) =>
        LET obj == Content(fs.objective_csv)
            der == Content(fs.derivatives_csv)
        IN  /\ obj_data # None => ~BadField(obj)
            /\ deriv_data # None => ~BadField(der)
            /\ (BadField(obj) \/ BadField(der))
                => /\ plots = NoPlots
                   /\ stats = NoStats
                   /\ verdict = NoVerdict
                   /\ result # "completed"
            /\ (BadField(obj) /\ pc \notin {"resolve", "check", "load_obj"})
                => pc = "exit" /\ result = "ValueError"
            /\ (BadField(der) /\ obj_data # None /\ pc # "load_deriv")
                => pc = "exit" /\ result = "ValueError"

\* the objective file has loaded, the derivative file has a field that is no
\* number: the run has ended with ValueError
C10_Witness ==
    /\ script # "p0213"
    /\ BothExist
    /\ BadField(Content(fs.derivatives_csv))
    /\ obj_data # None
    /\ deriv_data = None
    /\ pc = "exit"
    /\ result = "ValueError"

\* the side-channel file exists and its content is no float
Unparseable(metadata) ==
    Exists(metadata) /\ ~ParseFloat(Strip(Content(metadata))).ok

\* C11: in the 02.13 scripts the resolution never raises: whatever the
\* side-channel file holds and whatever the caller gives, the run goes on
\* with a number for the expected angle, and a file whose content is no
\* float gives what an absent file gives (the caller's value, else 5.0).
C11_ResolutionNeverRaises ==
    (script # "p0126_2" /\ pc # "resolve") =>
        /\ Resolved
        /\ expected_angle[1] \in Int
        /\ \E k \in 1..Len(out) : out[k] = <<"expected_angle", expected_angle[1]>>
        /\ Unparseable(fs.expected_angle_txt) =>
                expected_angle[1] = IF cli_value = None THEN DEFAULT_EXPECTED_ANGLE
                                    ELSE cli_value[1]

\* no caller value, a file that holds "abc": the run has gone on with 5.0
C11_Witness ==
    /\ script # "p0126_2"
    /\ cli_value = None
    /\ fs.expected_angle_txt = <<Junk>>
    /\ pc = "check"
    /\ result = "running"
    /\ expected_angle = <<DEFAULT_EXPECTED_ANGLE>>

\* the names of the required input files that do not exist
MissingFiles ==
    {f \in {"results/objective_function.csv", "results/derivatives.csv"} :
        IF f = "results/objective_function.csv" THEN ~Exists(fs.objective_csv)
        ELSE ~Exists(fs.derivatives_csv)}

\* C12: in all three scripts, when a required input file does not exist the
\* run ends by returning (no exception) right after printing a line that
\* names a missing file, and nothing is loaded, drawn, computed or judged.
C12_MissingInputReturns ==
    MissingFiles # {} =>
        /\ pc \in {"resolve", "check", "exit"}
        /\ result \in {"running", "returned"}
        /\ obj_data = None
        /\ deriv_data = None
        /\ plots = NoPlots
        /\ stats = NoStats
        /\ verdict = NoVerdict
        /\ pc = "exit" =>
            /\ result = "returned"
            /\ \E f \in MissingFiles : out[Len(out)] = <<"not_found", f>>
            /\ \A k \in 1..(Len(out) - 1) : out[k][1] = "expected_angle"

\* the objective file exists, the derivative file does not: the run has
\* returned after naming results/derivatives.csv
C12_Witness ==
    /\ Exists(fs.objective_csv)
    /\ ~Exists(fs.derivatives_csv)
    /\ pc = "exit"
    /\ result = "returned"
    /\ out[Len(out)] = <<"not_found", "results/derivatives.csv">>
    /\ obj_data = None
    /\ plots = NoPlots
    /\ stats = NoStats

\* all the values of a column are equal
ZeroVariance(column) == Cardinality(Values(column)) = 1

\* C13: in the plot_results_2 scripts a correlation value, and a
\* correlation_ok judgment, exist only for derivative columns that both
\* vary: with a column of equal values the computation fails and leaves
\* neither.
C13_ZeroVarianceFails ==
    script # "p0213" =>
        /\ stats.correlation # None =>
                /\ ~ZeroVariance(DerivativeSeries.numerical)
                /\ ~ZeroVariance(DerivativeSeries.analytical)
        /\ verdict.correlation_ok # None =>
                /\ ~ZeroVariance(DerivativeSeries.numerical)
                /\ ~ZeroVariance(DerivativeSeries.analytical)

\* the criterion has been evaluated and its result printed
Judged(ok, name) ==
    /\ ok # None
    /\ \E k \in 1..Len(out) :
            out[k] = <<IF ok[1] THEN "ok" ELSE "ng", name>>

\* the criteria evaluated so far at each point of the checks; at the end all
\* three and the overall result, and the run has completed
JudgeProgress ==
    /\ pc \in {"judge_min", "judge_corr", "judge_deriv", "judge_summary", "exit"}
    /\ result = IF pc = "exit" THEN "completed" ELSE "running"
    /\ pc # "judge_min" => Judged(verdict.minimum_ok, "minimum")
    /\ pc \notin {"judge_min", "judge_corr"}
            => Judged(verdict.correlation_ok, "correlation")
    /\ pc \in {"judge_summary", "exit"}
            => Judged(verdict.derivative_near_zero_ok, "derivative")
    /\ pc = "exit" =>
            /\ verdict.overall_ok # None
            /\ Len(out) = 4
            /\ out[4] = <<IF verdict.overall_ok[1] THEN "all_ok" ELSE "problems",
                          "summary">>
            /\ verdict.overall_ok[1] =
                    (/\ verdict.minimum_ok[1]
                     /\ verdict.correlation_ok[1]
                     /\ verdict.derivative_near_zero_ok[1])

\* C14: the checks of 01.26 never raise: whatever the three judged values
\* are, each criterion is evaluated in turn also after a failure, a result
\* is printed for each and for the whole, and success, once FALSE, stays
\* FALSE to the end.
C14_JudgeNeverRaises ==
    /\ []JudgeProgress
    /\ [][verdict.success = <<FALSE>> => verdict'.success = <<FALSE>>]_vars

\* the minimum has failed, the correlation has passed after it, the
\* derivative has failed: all three were judged and the whole has failed
C14_Witness ==
    /\ pc = "exit"
    /\ result = "completed"
    /\ verdict.minimum_ok = <<FALSE>>
    /\ verdict.correlation_ok = <<TRUE>>
    /\ verdict.derivative_near_zero_ok = <<FALSE>>
    /\ verdict.success = <<FALSE>>
    /\ verdict.overall_ok = <<FALSE>>

====
